---- MODULE Spec2Model ----
(***************************************************************************)
(* Batch ASR evaluation pipeline (scripts/evaluate.py) and the text        *)
(* metrics of the single-utterance script (scripts/analyze.py).            *)
(*                                                                         *)
(* Specifications over one set of variables:                               *)
(*   SpecText  - the text metrics normalize / cer / wer on bounded strings *)
(*   SpecLoad  - load_audio on every outcome of the read and resample step *)
(*   Spec      - run_evaluation: setup, the row loop, summary and return,  *)
(*               with every per-row stage allowed to fail                  *)
(*   SpecData  - run_evaluation over richer metadata tables (text and      *)
(*               distance_m cells of every kind), stages succeeding        *)
(*   SpecEq    - run_evaluation over every EQ toggle and profile name      *)
(*   SpecAnalyze - cer / wer of analyze.py on bounded strings              *)
(*                                                                         *)
(* Text is a sequence of one-character strings.  A float is a record       *)
(* [k, n, d]: k = "fin" with the reduced fraction n/d, "nan" or "inf".     *)
(***************************************************************************)
EXTENDS Integers, Sequences, FiniteSets, TLC

VARIABLES
    pc,        \* position of run_evaluation: idle, loop, returned, raised
    req,       \* the request: asr_backend, eq_mode, do_eq, condition
    meta,      \* the metadata.csv under data_root
    refs,      \* utt_id -> reference text cell (human rows)
    subset,    \* the selected rows, each with its index label idx
    k,         \* loop position in subset
    rows,      \* the EvaluationRows appended so far
    logs,      \* the log trail
    report,    \* the returned report
    calls,     \* the stage calls made: load_audio, apply_eq, asr, features
    la,        \* SpecLoad: the last load_audio call and its result
    tm,        \* SpecText: the last cer/wer call and its result
    am         \* SpecAnalyze: the last cer/wer call of analyze.py and its result

vars == <<pc, req, meta, refs, subset, k, rows, logs, report, calls, la, tm, am>>

----------------------------------------------------------------------------
(* Floats *)

RECURSIVE Gcd(_, _)
Gcd(a, b) == IF b = 0 THEN a ELSE Gcd(b, a % b)

Abs(x) == IF x < 0 THEN -x ELSE x

\* the float n/d (d > 0), reduced
Fin(n, d) ==
    LET g == Gcd(Abs(n), d)
    IN  [k |-> "fin", n |-> n \div g, d |-> d \div g]

Zero == Fin(0, 1)
NaN == [k |-> "nan", n |-> 0, d |-> 1]
Inf == [k |-> "inf", n |-> 0, d |-> 1]

IsFinite(x) == x.k = "fin"

\* x + y on floats that are not NaN
Add(x, y) ==
    IF x.k = "inf" \/ y.k = "inf" THEN Inf
    ELSE LET g == Gcd(x.d, y.d)
         IN  Fin(x.n * (y.d \div g) + y.n * (x.d \div g), (x.d \div g) * y.d)

\* x / c for an integer c > 0
DivInt(x, c) == IF x.k = "fin" THEN Fin(x.n, x.d * c) ELSE x

\* x < y on floats that are not NaN
Less(x, y) ==
    /\ x.k = "fin"
    /\ \/ y.k = "inf"
       \/ x.n * y.d < y.n * x.d

----------------------------------------------------------------------------
(* TEXT METRICS *)

IsSpace(c) == c = " "

\* a normalize that keeps the letter case
Lower_identity(c) == c

\* str.lower() on one character
Lower(c) == IF c = "A" THEN "a" ELSE IF c = "B" THEN "b" ELSE c

lower(s) == [i \in 1..Len(s) |-> Lower(s[i])]

RECURSIVE lstrip(_)
lstrip(s) == IF s # <<>> /\ IsSpace(Head(s)) THEN lstrip(Tail(s)) ELSE s

RECURSIVE rstrip(_)
rstrip(s) ==
    IF s # <<>> /\ IsSpace(s[Len(s)]) THEN rstrip(SubSeq(s, 1, Len(s) - 1)) ELSE s

strip(s) == rstrip(lstrip(s))

\* str.split(): the maximal runs of non-whitespace characters
RECURSIVE SplitAcc(_, _, _)
SplitAcc(s, cur, out) ==
    IF s = <<>> THEN (IF cur = <<>> THEN out ELSE Append(out, cur))
    ELSE IF IsSpace(Head(s))
         THEN SplitAcc(Tail(s), <<>>, IF cur = <<>> THEN out ELSE Append(out, cur))
         ELSE SplitAcc(Tail(s), Append(cur, Head(s)), out)

split(s) == SplitAcc(s, <<>>, <<>>)

\* " ".join(words)
RECURSIVE join(_)
join(ws) ==
    IF ws = <<>> THEN <<>>
    ELSE IF Len(ws) = 1 THEN ws[1]
    ELSE ws[1] \o <<" ">> \o join(Tail(ws))

\* a missing cell read by pandas: the float NaN
NaNCell == <<"NaN">>

\* str(x): a string is itself, the float nan is "nan"
str(x) == IF x = NaNCell THEN <<"n", "a", "n">> ELSE x

normalize(text) == join(split(strip(lower(str(text)))))

Min2(a, b) == IF a < b THEN a ELSE b
Max2(a, b) == IF a < b THEN b ELSE a

\* editdistance.eval: the Levenshtein distance of two sequences
eval(a, b) ==
    LET m == Len(a)
        n == Len(b)
        D[i \in 0..m, j \in 0..n] ==
            IF i = 0 THEN j
            ELSE IF j = 0 THEN i
            ELSE Min2(Min2(D[i - 1, j] + 1, D[i, j - 1] + 1),
                      D[i - 1, j - 1] + (IF a[i] = b[j] THEN 0 ELSE 1))
    IN  D[m, n]

cer(ref, hyp) ==
    LET ref_n == normalize(ref)
        hyp_n == normalize(hyp)
    IN  IF ref_n = <<>> THEN Zero
        ELSE Fin(eval(ref_n, hyp_n), Max2(1, Len(ref_n)))

wer(ref, hyp) ==
    LET ref_w == split(normalize(ref))
        hyp_w == split(normalize(hyp))
    IN  IF ref_w = <<>> THEN Zero
        ELSE Fin(eval(ref_w, hyp_w), Max2(1, Len(ref_w)))

\* analyze.py: normalize_text, cer and wer of the single-utterance script;
\* ed: the optional import of editdistance succeeded
normalize_text(t) == join(split(strip(lower(str(t)))))

analyze_cer(ref, hyp, ed) ==
    IF ~ed THEN Zero
    ELSE LET ref_n == normalize_text(ref)
             hyp_n == normalize_text(hyp)
         IN  Fin(eval(ref_n, hyp_n), Max2(1, Len(ref_n)))

analyze_wer(ref, hyp, ed) ==
    IF ~ed THEN Zero
    ELSE LET ref_w == split(normalize_text(ref))
             hyp_w == split(normalize_text(hyp))
         IN  Fin(eval(ref_w, hyp_w), Max2(1, Len(ref_w)))

----------------------------------------------------------------------------
(* SpecText: cer and wer called on bounded strings *)

MaxLen == 4
MaxHypLen == 3

\* references carry upper case, hypotheses do not
RefChars == {"a", "B", " "}
HypChars == {"a", "b", " "}

StringsOver(C, len) == UNION {[1..n -> C] : n \in 0..len}

NoCall == [ref |-> <<>>, hyp |-> <<>>, cer |-> Zero, wer |-> Zero, done |-> FALSE]

NoAnalyzeCall ==
    [ref |-> <<>>, hyp |-> <<>>, ed |-> TRUE, cer |-> Zero, wer |-> Zero, done |-> FALSE]

----------------------------------------------------------------------------
(* AUDIO UTILITIES *)

TARGET_SR == 16000

\* A waveform: len samples (frames), ndim array dimensions, sig the signal
\* it carries (0: all samples zero), hist the transforms applied to it.
\* np.zeros(n, dtype=np.float32)
zeros(n) == [len |-> n, ndim |-> 1, sig |-> 0, hist |-> <<>>]

Op(name, lo, hi, g) == [op |-> name, lo |-> lo, hi |-> hi, g |-> g]

\* the array sf.read returns for a decodable file: 1-D for one channel,
\* (frames, channels) otherwise; its samples are finite floats
Decoded(rd) ==
    [len |-> rd.frames, ndim |-> IF rd.channels > 1 THEN 2 ELSE 1,
     sig |-> rd.sig, hist |-> <<>>]

\* y.mean(axis=1)
mean_axis1(y) == [y EXCEPT !.ndim = 1, !.hist = Append(@, Op("mean", 0, 0, 0))]

\* ceil(a / b) for b > 0
CeilDiv(a, b) == (a + b - 1) \div b

\* librosa.resample(y, orig_sr, target_sr): ceil(len * target_sr / orig_sr) samples
resample(y, orig_sr, target_sr) ==
    [y EXCEPT !.len = CeilDiv(y.len * target_sr, orig_sr),
              !.hist = Append(@, Op("resample", orig_sr, target_sr, 0))]

Log(tag, who) == [tag |-> tag, who |-> who]

\* a load_audio without the `len(y) == 0` substitution
load_audio_no_empty_check(path, lg, rd, rs) ==
    LET y1 == IF rd.ok THEN Decoded(rd) ELSE zeros(TARGET_SR)
        sr1 == IF rd.ok THEN rd.sr ELSE TARGET_SR
        lg1 == IF rd.ok THEN lg ELSE Append(lg, Log("[load_audio] failed", path))
        y2 == IF y1.ndim > 1 THEN mean_axis1(y1) ELSE y1
    IN  IF sr1 # TARGET_SR
        THEN IF rs = "ok"
             THEN [y |-> resample(y2, sr1, TARGET_SR), sr |-> TARGET_SR, logs |-> lg1]
             ELSE [y |-> zeros(TARGET_SR), sr |-> TARGET_SR,
                   logs |-> Append(lg1, Log("[resample] failed", path))]
        ELSE [y |-> y2, sr |-> sr1, logs |-> lg1]

\* load_audio(path, logs) when sf.read ends as rd (rd.ok: it returned, else it
\* raised) and librosa.resample, if called, ends as rs ("ok" or "fail")
load_audio(path, lg, rd, rs) ==
    LET y1 == IF rd.ok THEN Decoded(rd) ELSE zeros(TARGET_SR)
        sr1 == IF rd.ok THEN rd.sr ELSE TARGET_SR
        lg1 == IF rd.ok THEN lg ELSE Append(lg, Log("[load_audio] failed", path))
        y2 == IF y1.ndim > 1 THEN mean_axis1(y1) ELSE y1
        y3 == IF y2.len = 0 THEN zeros(TARGET_SR) ELSE y2
    IN  IF sr1 # TARGET_SR
        THEN IF rs = "ok"
             THEN [y |-> resample(y3, sr1, TARGET_SR), sr |-> TARGET_SR, logs |-> lg1]
             ELSE [y |-> zeros(TARGET_SR), sr |-> TARGET_SR,
                   logs |-> Append(lg1, Log("[resample] failed", path))]
        ELSE [y |-> y3, sr |-> sr1, logs |-> lg1]

\* rms(y) = sqrt(mean(y**2) + 1e-12): 1e-6 on silence; on a signal the
\* value is left uninterpreted: a finite float fixed by the signal and by
\* the number of EQ filters applied to it
rms(y) ==
    IF y.sig = 0 THEN Fin(1, 1000000)
    ELSE Fin(10 * y.sig + Cardinality({i \in 1..Len(y.hist) : y.hist[i].op = "eq"}), 10)

\* spectral_features(y, sr): (0.0, 0.0) on an empty waveform; the mean
\* centroid and rolloff otherwise: both 0 on silence, uninterpreted finite
\* floats fixed by the signal and the filters on a signal
spectral_features(y, sr) ==
    IF y.len = 0 \/ y.sig = 0 THEN [c |-> Zero, r |-> Zero]
    ELSE [c |-> Fin(1000 * y.sig + 100 * Cardinality({i \in 1..Len(y.hist) : y.hist[i].op = "eq"}), 1),
          r |-> Fin(3000 * y.sig + 100 * Cardinality({i \in 1..Len(y.hist) : y.hist[i].op = "eq"}), 1)]

----------------------------------------------------------------------------
(* EQ FUNCTIONS *)

\* y + gain * lfilter(b, a, y): same length, gain in tenths
apply_eq_filter(y, lowcut, highcut, gain) ==
    [y EXCEPT !.hist = Append(@, Op("eq", lowcut, highcut, gain))]

\* the profile names apply_eq has a branch for
KnownProfiles == {"rock", "pop", "jazz", "classic"}

apply_eq(y, mode) ==
    IF mode = "rock" THEN apply_eq_filter(apply_eq_filter(y, 100, 300, 7), 4000, 8000, 5)
    ELSE IF mode = "pop" THEN apply_eq_filter(apply_eq_filter(y, 200, 400, 5), 3000, 6000, 4)
    ELSE IF mode = "jazz" THEN apply_eq_filter(apply_eq_filter(y, 250, 500, 5), 2000, 5000, 3)
    ELSE IF mode = "classic" THEN apply_eq_filter(apply_eq_filter(y, 100, 400, 4), 2000, 6000, 2)
    ELSE y

----------------------------------------------------------------------------
(* MAIN EVALUATION *)

AllColumns == {"relpath", "utt_id", "condition", "text", "distance_m"}

NoRefs == [u \in {} |-> <<>>]

NoReport ==
    [fields |-> {}, error |-> "", backend |-> "", detailedResults |-> <<>>,
     summary |-> <<>>, plotData |-> "", logs |-> <<>>]

\* {"error": ..., "logs": "\n".join(logs)}
ErrorReport(msg, lg) ==
    [fields |-> {"error", "logs"}, error |-> msg, backend |-> "",
     detailedResults |-> <<>>, summary |-> <<>>, plotData |-> "", logs |-> lg]

\* {"backend": ..., "detailedResults": ..., "summary": ..., "plotData": ..., "logs": ...}
ResultReport(backend, det, summ, plot, lg) ==
    [fields |-> {"backend", "detailedResults", "summary", "plotData", "logs"},
     error |-> "", backend |-> backend, detailedResults |-> det,
     summary |-> summ, plotData |-> plot, logs |-> lg]

\* pd.read_csv on a file with a header: row i gets the index label i - 1, an
\* empty text cell is read as NaN
read_csv(mf) ==
    [i \in 1..Len(mf.rows) |->
        [idx |-> i - 1,
         utt_id |-> mf.rows[i].utt_id,
         condition |-> mf.rows[i].condition,
         relpath |-> mf.rows[i].relpath,
         text |-> IF mf.rows[i].text = <<>> THEN NaNCell ELSE mf.rows[i].text,
         distance_m |-> mf.rows[i].distance_m]]

\* df[df["condition"] == "human"].set_index("utt_id")["text"].to_dict():
\* the text cell of the last human row of each utt_id
human_refs(df) ==
    LET H == {i \in 1..Len(df) : df[i].condition = "human"}
        last(u) == CHOOSE i \in H :
                      /\ df[i].utt_id = u
                      /\ \A j \in H : df[j].utt_id = u => j <= i
    IN  [u \in {df[i].utt_id : i \in H} |-> df[last(u)].text]

ConfigLogs(rq) ==
    << Log("[config] backend", rq.asr_backend), Log("[config] data_root", ""),
       Log("backend", rq.asr_backend), Log("data_root", "") >>

\* a selection that keeps every row
select_all(df, condition) == df

\* df[df["condition"] == condition]
select(df, condition) == SelectSeq(df, LAMBDA r : r.condition = condition)

\* an empty selection reported as an error
empty_report_as_error(rq, lg) == ErrorReport("no rows", lg)

\* the report of an empty selection
empty_report(rq, lg) ==
    ResultReport(rq.asr_backend, <<>>, <<>>, "", Append(lg, Log("[subset] EMPTY", "")))

\* run_evaluation up to the row loop: the state it leaves
setup(rq, mf) ==
    LET lg0 == ConfigLogs(rq)
        stop(p, rep) == [pc |-> p, refs |-> NoRefs, subset |-> <<>>, logs |-> lg0,
                         report |-> rep]
    IN  IF ~mf.exists
        THEN stop("returned", ErrorReport("metadata.csv not found", lg0))
        ELSE IF mf.empty
        THEN stop("raised", NoReport)  \* pd.read_csv: EmptyDataError, not caught
        ELSE IF ~({"relpath", "utt_id", "condition"} \subseteq mf.columns)
        THEN stop("returned", ErrorReport("metadata.csv missing required columns", lg0))
        ELSE
        LET df == read_csv(mf)
            rf == IF "text" \in mf.columns THEN human_refs(df) ELSE NoRefs
            lg1 == Append(lg0, IF "text" \in mf.columns
                               THEN Log("[refs] human refs count", "")
                               ELSE Log("[refs] WARNING: column 'text' not found", ""))
            sub == select(df, rq.condition)
            lg2 == Append(lg1, Log("[subset] rows", rq.condition))
        IN  IF Len(sub) = 0
            THEN [pc |-> "returned", refs |-> rf, subset |-> sub, logs |-> lg2,
                  report |-> empty_report(rq, lg2)]
            ELSE [pc |-> "loop", refs |-> rf, subset |-> sub, logs |-> lg2,
                  report |-> NoReport]

KnownBackends == {"whisper", "wav2vec2", "vosk"}

\* float(x) of a distance_m cell: the float it reads as, or a ValueError
float(c) ==
    IF c = "" THEN [ok |-> TRUE, val |-> NaN]   \* a missing cell is NaN already
    ELSE IF c = "1" THEN [ok |-> TRUE, val |-> Fin(1, 1)]
    ELSE IF c = "2" THEN [ok |-> TRUE, val |-> Fin(2, 1)]
    ELSE IF c = "inf" THEN [ok |-> TRUE, val |-> Inf]
    ELSE [ok |-> FALSE, val |-> NaN]

\* a stage call made for row `who`: the waveform it was given (load_audio:
\* the one it returned), how it ended, and for the text metrics the hypothesis
StageCall(stage, who, y, out, hyp) ==
    [stage |-> stage, who |-> who, y |-> y, out |-> out, hyp |-> hyp]

\* an EQ gate that does not look at do_eq
eq_stage_ungated(rq, utt_id, y, lg, eo) ==
    IF rq.eq_mode # "" /\ rq.eq_mode # "none"
    THEN IF eo = "ok" \/ rq.eq_mode \notin KnownProfiles
         THEN [y |-> apply_eq(y, rq.eq_mode), logs |-> lg,
               calls |-> << StageCall("apply_eq", utt_id, y, "ok", <<>>) >>]
         ELSE [y |-> y, logs |-> Append(lg, Log("[EQ] failed", utt_id)),
               calls |-> << StageCall("apply_eq", utt_id, y, "fail", <<>>) >>]
    ELSE [y |-> y, logs |-> lg, calls |-> <<>>]

\* the EQ gate of the row loop, the filters of apply_eq ending as eo ("ok":
\* they return, "fail": one raises); apply_eq on a name it has no branch
\* for calls no filter and returns
eq_stage(rq, utt_id, y, lg, eo) ==
    IF rq.do_eq /\ rq.eq_mode # "" /\ rq.eq_mode # "none"
    THEN IF eo = "ok" \/ rq.eq_mode \notin KnownProfiles
         THEN [y |-> apply_eq(y, rq.eq_mode), logs |-> lg,
               calls |-> << StageCall("apply_eq", utt_id, y, "ok", <<>>) >>]
         ELSE [y |-> y, logs |-> Append(lg, Log("[EQ] failed", utt_id)),
               calls |-> << StageCall("apply_eq", utt_id, y, "fail", <<>>) >>]
    ELSE [y |-> y, logs |-> lg, calls |-> <<>>]

\* a dispatch that runs a backend whatever the backend id
transcribe_fallback(rq, utt_id, y, lg, ar) ==
    IF ar.ok
    THEN [hyp |-> ar.hyp, logs |-> lg,
          calls |-> << StageCall("asr", utt_id, y, "ok", <<>>) >>]
    ELSE [hyp |-> <<>>, logs |-> Append(lg, Log("[ASR] failed", utt_id)),
          calls |-> << StageCall("asr", utt_id, y, "fail", <<>>) >>]

\* the backend dispatch of the row loop, the backend ending as ar
transcribe(rq, utt_id, y, lg, ar) ==
    IF rq.asr_backend \in KnownBackends
    THEN IF ar.ok
         THEN [hyp |-> ar.hyp, logs |-> lg,
               calls |-> << StageCall("asr", utt_id, y, "ok", <<>>) >>]
         ELSE [hyp |-> <<>>, logs |-> Append(lg, Log("[ASR] failed", utt_id)),
               calls |-> << StageCall("asr", utt_id, y, "fail", <<>>) >>]
    ELSE [hyp |-> <<>>, logs |-> Append(lg, Log("[ASR] Unknown backend", rq.asr_backend)),
          calls |-> <<>>]

\* r.get("distance_m", 0.0) and float(dist), 0.0 on a ValueError
distance_of(cols, r) ==
    IF "distance_m" \in cols
    THEN (IF float(r.distance_m).ok THEN float(r.distance_m).val ELSE Zero)
    ELSE Zero

\* how load_audio ended, from the outcomes of its two steps
LoadOutcome(rd, rs) ==
    IF ~rd.ok THEN "read_failed"
    ELSE IF rd.sr # TARGET_SR /\ rs # "ok" THEN "resample_failed"
    ELSE "ok"

\* one pass of the row loop on row r, with the outcomes of sf.read (rd),
\* librosa.resample (rs), apply_eq (eo) and the ASR backend (ar)
iteration(rq, cols, rf, lg, r, rd, rs, eo, ar) ==
    LET utt_id == r.utt_id
        loaded == load_audio(r.relpath, lg, rd, rs)
        eqd == eq_stage(rq, utt_id, loaded.y, loaded.logs, eo)
        y == eqd.y
        ref == IF utt_id \in DOMAIN rf THEN rf[utt_id] ELSE <<>>
        asr == transcribe(rq, utt_id, y, eqd.logs, ar)
        f == spectral_features(y, loaded.sr)
    IN  [row |-> [utt_id |-> utt_id, idx |-> r.idx, distance_m |-> distance_of(cols, r),
                  CER |-> cer(ref, asr.hyp), WER |-> wer(ref, asr.hyp), RMS |-> rms(y),
                  centroid |-> f.c, rolloff |-> f.r],
         logs |-> asr.logs,
         calls |-> << StageCall("load_audio", utt_id, loaded.y, LoadOutcome(rd, rs), <<>>) >>
                   \o eqd.calls
                   \o asr.calls
                   \o << StageCall("spectral_features", utt_id, y, "ok", <<>>),
                         StageCall("cer_wer", utt_id, y, "ok", asr.hyp) >>]

\* DataFrame.fillna(0.0) on one record
fillna(row) ==
    LET z(x) == IF x.k = "nan" THEN Zero ELSE x
    IN  [row EXCEPT !.distance_m = z(@), !.CER = z(@), !.WER = z(@), !.RMS = z(@),
                    !.centroid = z(@), !.rolloff = z(@)]

RECURSIVE SumOf(_)
SumOf(xs) == IF xs = <<>> THEN Zero ELSE Add(Head(xs), SumOf(Tail(xs)))

\* Series.mean() of a non-empty column without NaN
mean(xs) == DivInt(SumOf(xs), Len(xs))

\* the group keys in ascending order, as groupby sorts them
RECURSIVE sorted(_)
sorted(S) ==
    IF S = {} THEN <<>>
    ELSE LET lo == CHOOSE x \in S : \A y \in S \ {x} : Less(x, y)
         IN  <<lo>> \o sorted(S \ {lo})

\* a summary whose means run over all rows instead of the group
groupby_mean_all(det) ==
    LET keys == sorted({det[i].distance_m : i \in 1..Len(det)})
        col(g, c) == [i \in 1..Len(g) |-> g[i][c]]
    IN  [j \in 1..Len(keys) |->
            [distance_m |-> keys[j], CER |-> mean(col(det, "CER")),
             WER |-> mean(col(det, "WER")), RMS |-> mean(col(det, "RMS")),
             centroid |-> mean(col(det, "centroid")),
             rolloff |-> mean(col(det, "rolloff"))]]

\* df_det.groupby("distance_m")[num_cols].mean().reset_index()
groupby_mean(det) ==
    LET keys == sorted({det[i].distance_m : i \in 1..Len(det)})
        grp(key) == SelectSeq(det, LAMBDA r : r.distance_m = key)
        col(g, c) == [i \in 1..Len(g) |-> g[i][c]]
    IN  [j \in 1..Len(keys) |->
            LET g == grp(keys[j])
            IN  [distance_m |-> keys[j], CER |-> mean(col(g, "CER")),
                 WER |-> mean(col(g, "WER")), RMS |-> mean(col(g, "RMS")),
                 centroid |-> mean(col(g, "centroid")),
                 rolloff |-> mean(col(g, "rolloff"))]]

\* a finish that turns a plot failure into an error report
finish_plot_fatal(rq, rws, lg, po) ==
    LET df_det == [i \in 1..Len(rws) |-> fillna(rws[i])]
    IN  IF po = "ok" THEN ResultReport(rq.asr_backend, df_det, groupby_mean(df_det), "png", lg)
        ELSE ErrorReport("plot failed", Append(lg, Log("[plot] failed", "")))

\* run_evaluation after the row loop, with the outcome po of the plot
finish(rq, rws, lg, po) ==
    LET df_det == [i \in 1..Len(rws) |-> fillna(rws[i])]
        df_sum == groupby_mean(df_det)
        lg1 == IF po = "ok" THEN lg ELSE Append(lg, Log("[plot] failed", ""))
    IN  ResultReport(rq.asr_backend, df_det, df_sum, IF po = "ok" THEN "png" ELSE "", lg1)

----------------------------------------------------------------------------
(* The actions *)

NoRequest == [asr_backend |-> "", eq_mode |-> "", do_eq |-> FALSE, condition |-> ""]
NoFile == [exists |-> FALSE, empty |-> FALSE, columns |-> {}, rows |-> <<>>]
NoLoad == [rd |-> [ok |-> FALSE, frames |-> 0, channels |-> 1, sr |-> TARGET_SR, sig |-> 0],
           rs |-> "ok", out |-> [y |-> zeros(0), sr |-> 0, logs |-> <<>>],
           done |-> FALSE]

Init ==
    /\ pc = "idle"
    /\ req = NoRequest
    /\ meta = NoFile
    /\ refs = NoRefs
    /\ subset = <<>>
    /\ k = 1
    /\ rows = <<>>
    /\ logs = <<>>
    /\ report = NoReport
    /\ calls = <<>>
    /\ la = NoLoad
    /\ tm = NoCall
    /\ am = NoAnalyzeCall

\* run_evaluation(asr_backend, data_root, eq_mode, do_eq, condition) is called
\* and runs up to its row loop
CallOn(Requests, Files) ==
    /\ pc = "idle"
    /\ \E rq \in Requests, mf \in Files :
          LET st == setup(rq, mf)
          IN  /\ req' = rq
              /\ meta' = mf
              /\ pc' = st.pc
              /\ refs' = st.refs
              /\ subset' = st.subset
              /\ logs' = st.logs
              /\ report' = st.report
    /\ UNCHANGED <<k, rows, calls, la, tm, am>>

\* one iteration of `for idx, r in subset.iterrows()`
ProcessRowOn(Reads, Resamples, EqOutcomes, AsrOutcomes) ==
    /\ pc = "loop"
    /\ k <= Len(subset)
    /\ \E rd \in Reads, rs \in Resamples, eo \in EqOutcomes, ar \in AsrOutcomes :
          LET st == iteration(req, meta.columns, refs, logs, subset[k], rd, rs, eo, ar)
          IN  /\ rows' = Append(rows, st.row)
              /\ logs' = st.logs
              /\ calls' = calls \o st.calls
    /\ k' = k + 1
    /\ UNCHANGED <<pc, req, meta, refs, subset, report, la, tm, am>>

\* the loop is over: summary, plot and return
FinishOn(PlotOutcomes) ==
    /\ pc = "loop"
    /\ k > Len(subset)
    /\ \E po \in PlotOutcomes :
          /\ report' = finish(req, rows, logs, po)
          /\ logs' = finish(req, rows, logs, po).logs
    /\ pc' = "returned"
    /\ UNCHANGED <<req, meta, refs, subset, k, rows, calls, la, tm, am>>

\* load_audio(path, logs) called on its own
LoadAudio(Reads, Resamples) ==
    /\ pc = "idle"
    /\ ~la.done
    /\ \E rd \in Reads, rs \in Resamples :
          la' = [rd |-> rd, rs |-> rs, out |-> load_audio("a.wav", <<>>, rd, rs),
                 done |-> TRUE]
    /\ UNCHANGED <<pc, req, meta, refs, subset, k, rows, logs, report, calls, tm, am>>

\* cer(ref, hyp) and wer(ref, hyp) called on their own
TextMetrics ==
    /\ pc = "idle"
    /\ ~tm.done
    /\ \E ref \in StringsOver(RefChars, MaxLen), hyp \in StringsOver(HypChars, MaxHypLen) :
          tm' = [ref |-> ref, hyp |-> hyp, cer |-> cer(ref, hyp),
                 wer |-> wer(ref, hyp), done |-> TRUE]
    /\ UNCHANGED <<pc, req, meta, refs, subset, k, rows, logs, report, calls, la, am>>

\* cer(ref_text, pred_text) and wer(ref_text, pred_text) of analyze.py called
\* on their own, editdistance imported or not
AnalyzeMetrics ==
    /\ pc = "idle"
    /\ ~am.done
    /\ \E ed \in BOOLEAN, ref \in StringsOver(RefChars, MaxLen) \cup {NaNCell},
          hyp \in StringsOver(HypChars, MaxHypLen) :
          am' = [ref |-> ref, hyp |-> hyp, ed |-> ed, cer |-> analyze_cer(ref, hyp, ed),
                 wer |-> analyze_wer(ref, hyp, ed), done |-> TRUE]
    /\ UNCHANGED <<pc, req, meta, refs, subset, k, rows, logs, report, calls, la, tm>>

----------------------------------------------------------------------------
(* The inputs *)

MaxRows == 2
MaxDataRows == 2
MaxFrames == 3

NativeRates == {8000, TARGET_SR, 22050, 44100}

ReadFailed == [ok |-> FALSE, frames |-> 0, channels |-> 1, sr |-> TARGET_SR, sig |-> 0]

\* what sf.read can do: raise, or return frames x channels samples at a rate
ReadOutcomes ==
    {ReadFailed} \cup
    [ok : {TRUE}, frames : 0..MaxFrames, channels : 1..2, sr : NativeRates, sig : 1..2]

Outcomes == {"ok", "fail"}

Tables(R, n) == UNION {[1..m -> R] : m \in 0..n}

\* a metadata.csv with header h: the cells of the columns it lacks are blank
Project(r, h) ==
    [utt_id |-> IF "utt_id" \in h THEN r.utt_id ELSE "",
     condition |-> IF "condition" \in h THEN r.condition ELSE "",
     relpath |-> IF "relpath" \in h THEN r.relpath ELSE "",
     text |-> IF "text" \in h THEN r.text ELSE <<>>,
     distance_m |-> IF "distance_m" \in h THEN r.distance_m ELSE ""]

Headers == {AllColumns} \cup {AllColumns \ {c} : c \in AllColumns}

MissingFile == NoFile
EmptyFile == [exists |-> TRUE, empty |-> TRUE, columns |-> {}, rows |-> <<>>]

\* the headers that have every optional column
FullHeaders == {h \in Headers : {"text", "distance_m"} \subseteq h}

FilesOf(R, n, H) ==
    {MissingFile, EmptyFile} \cup
    {[exists |-> TRUE, empty |-> FALSE, columns |-> h,
      rows |-> [i \in 1..Len(t) |-> Project(t[i], h)]] : h \in H, t \in Tables(R, n)}

UttIds == {"u1", "u2"}
Conditions == {"human", "speaker_3m"}

\* Spec: plain tables, every stage outcome
PlainRows ==
    [utt_id : UttIds, condition : Conditions, relpath : {"a.wav"},
     text : {<<"a", "b">>}, distance_m : {"1"}]

Requests ==
    [asr_backend : KnownBackends \cup {"kaldi"}, eq_mode : {"rock"},
     do_eq : BOOLEAN, condition : {"speaker_3m"}]

RowReads ==
    {ReadFailed} \cup
    [ok : {TRUE}, frames : {MaxFrames}, channels : {1}, sr : {8000, TARGET_SR}, sig : {1}]

AsrOutcomes ==
    {[ok |-> FALSE, hyp |-> <<>>], [ok |-> TRUE, hyp |-> <<"a", "b">>]}

RunEvaluation == CallOn(Requests, FilesOf(PlainRows, MaxRows, FullHeaders))
ProcessRow == ProcessRowOn(RowReads, Outcomes, Outcomes, AsrOutcomes)
Finish == FinishOn(Outcomes)

Next == RunEvaluation \/ ProcessRow \/ Finish

Spec == Init /\ [][Next]_vars

\* SpecData: tables with every kind of text and distance_m cell, stages
\* succeed: human rows with or without a transcript, recorded rows at every
\* kind of distance
DataRows ==
    [utt_id : UttIds, condition : {"human"}, relpath : {"a.wav"},
     text : {<<>>, <<"a", "b">>}, distance_m : {"1"}]
    \cup
    [utt_id : UttIds, condition : {"speaker_3m"}, relpath : {"a.wav"},
     text : {<<>>}, distance_m : {"", "1", "inf", "far"}]

DataRequests ==
    [asr_backend : {"whisper"}, eq_mode : {"none"}, do_eq : {FALSE},
     condition : {"speaker_3m"}]

DataReads == [ok : {TRUE}, frames : {MaxFrames}, channels : {1}, sr : {TARGET_SR}, sig : 1..2]

DataHyps == [ok : {TRUE}, hyp : {<<"a">>, <<"a", "b">>}]

RunEvaluationData == CallOn(DataRequests, FilesOf(DataRows, MaxDataRows, Headers))
ProcessRowData == ProcessRowOn(DataReads, {"ok"}, {"ok"}, DataHyps)
FinishData == FinishOn({"ok"})

NextData == RunEvaluationData \/ ProcessRowData \/ FinishData

SpecData == Init /\ [][NextData]_vars

\* SpecEq: every EQ request (toggle and profile name) on recorded rows, the
\* read, the filters and the backend each failing or not
EqModes == {"", "none", "metal"} \cup KnownProfiles

EqRows ==
    [utt_id : UttIds, condition : {"speaker_3m"}, relpath : {"a.wav"},
     text : {<<>>}, distance_m : {"1"}]

EqRequests ==
    [asr_backend : {"whisper"}, eq_mode : EqModes, do_eq : BOOLEAN,
     condition : {"speaker_3m"}]

RunEvaluationEq == CallOn(EqRequests, FilesOf(EqRows, MaxRows, {AllColumns}))
ProcessRowEq == ProcessRowOn(RowReads, {"ok"}, Outcomes, AsrOutcomes)
FinishEq == FinishOn({"ok"})

NextEq == RunEvaluationEq \/ ProcessRowEq \/ FinishEq

SpecEq == Init /\ [][NextEq]_vars

\* SpecLoad: load_audio alone
LoadAudioAny == LoadAudio(ReadOutcomes, Outcomes)

NextLoad == LoadAudioAny

SpecLoad == Init /\ [][NextLoad]_vars

\* SpecText: cer and wer alone
NextText == TextMetrics

SpecText == Init /\ [][NextText]_vars

\* SpecAnalyze: cer and wer of analyze.py alone
NextAnalyze == AnalyzeMetrics

SpecAnalyze == Init /\ [][NextAnalyze]_vars

----------------------------------------------------------------------------
(* The claims *)

RequiredColumns == {"relpath", "utt_id", "condition"}

Called == pc # "idle"

ErrorShape == report.fields = {"error", "logs"}

ResultShape ==
    report.fields = {"backend", "detailedResults", "summary", "plotData", "logs"}

\* the metadata source is missing, or lacks a required column
SetupError == ~meta.exists \/ ~(RequiredColumns \subseteq meta.columns)

HasLog(lg, tag) == \E i \in 1..Len(lg) : lg[i].tag = tag

CountLog(lg, tag) == Cardinality({i \in 1..Len(lg) : lg[i].tag = tag})

CallsOf(stage) == SelectSeq(calls, LAMBDA c : c.stage = stage)

\* the positions of the metadata rows with the requested condition
SelIdx == {i \in 1..Len(meta.rows) : meta.rows[i].condition = req.condition}

RECURSIVE Ascending(_)
Ascending(S) ==
    IF S = {} THEN <<>>
    ELSE LET m == CHOOSE x \in S : \A y \in S : x <= y
         IN  <<m>> \o Ascending(S \ {m})

\* det holds one row for each of the first n selected metadata rows, in order
RowsMatch(det, n) ==
    /\ Len(det) = n
    /\ n <= Cardinality(SelIdx)
    /\ \A i \in 1..Len(det) :
          /\ det[i].idx = Ascending(SelIdx)[i] - 1
          /\ det[i].utt_id = meta.rows[Ascending(SelIdx)[i]].utt_id

\* C1: on a setup error (metadata missing, or lacking a required column) the
\* run ends by returning a report with only error and logs, no row is
\* processed and nothing is raised to the caller.
C1_SetupErrorTerminal ==
    (Called /\ SetupError) =>
        /\ pc = "returned"
        /\ ErrorShape
        /\ calls = <<>>
        /\ rows = <<>>

\* C2: whatever per-row stages fail, the batch is not aborted: the rows
\* appended, and the detailedResults returned, are one per metadata row with
\* the requested condition, in metadata order; a row whose audio could not be
\* read still has its row, computed from silence, and a log entry.
C2_BatchNeverAborted ==
    /\ pc = "loop" => RowsMatch(rows, k - 1)
    /\ (pc = "returned" /\ ~SetupError) =>
          /\ ResultShape
          /\ RowsMatch(report.detailedResults, Cardinality(SelIdx))
    /\ pc = "raised" => calls = <<>>
    /\ \A i \in 1..Len(CallsOf("load_audio")) :
          CallsOf("load_audio")[i].out = "read_failed" =>
              /\ i <= Len(rows)
              /\ rows[i].RMS = rms(zeros(TARGET_SR))
              /\ rows[i].centroid = Zero
              /\ HasLog(logs, "[load_audio] failed")

C2_Witness ==
    /\ pc = "returned"
    /\ Len(report.detailedResults) = 2
    /\ \E c \in {calls[i] : i \in 1..Len(calls)} : c.out = "read_failed"
    /\ \E c \in {calls[i] : i \in 1..Len(calls)} : c.out = "resample_failed"
    /\ \E c \in {calls[i] : i \in 1..Len(calls)} : c.stage = "apply_eq" /\ c.out = "fail"
    /\ \E c \in {calls[i] : i \in 1..Len(calls)} : c.stage = "asr" /\ c.out = "fail"

\* the metadata is readable, has the required columns, and no row has the
\* requested condition
EmptySelection ==
    /\ Called
    /\ meta.exists
    /\ ~meta.empty
    /\ RequiredColumns \subseteq meta.columns
    /\ SelIdx = {}

\* C3: an empty selection returns a results report with no rows, no summary,
\* no plot and no error, without processing a row, and its logs carry a
\* line that no setup-error report carries.
C3_EmptySelectionReport ==
    /\ EmptySelection =>
          /\ pc = "returned"
          /\ ResultShape
          /\ report.detailedResults = <<>>
          /\ report.summary = <<>>
          /\ report.plotData = ""
          /\ calls = <<>>
          /\ rows = <<>>
          /\ HasLog(report.logs, "[subset] EMPTY")
    /\ (pc = "returned" /\ ErrorShape) => ~HasLog(report.logs, "[subset] EMPTY")

C3_Witness ==
    /\ EmptySelection
    /\ pc = "returned"
    /\ Len(meta.rows) = 2

\* C9: every report returned has logs, and is either {error, logs} or
\* {backend, detailedResults, summary, plotData, logs} with the requested
\* backend; once a row was processed, and when the plot fails, the report is
\* of the second shape, the plot failure leaving plotData empty and a log entry.
C9_ReportShape ==
    pc = "returned" =>
        /\ "logs" \in report.fields
        /\ report.logs # <<>>
        /\ ErrorShape \/ (ResultShape /\ report.backend = req.asr_backend)
        /\ calls # <<>> => ResultShape
        /\ HasLog(report.logs, "[plot] failed") => (ResultShape /\ report.plotData = "")
        /\ (ResultShape /\ report.detailedResults # <<>> /\ report.plotData = "")
              => HasLog(report.logs, "[plot] failed")

C9_Witness ==
    /\ pc = "returned"
    /\ HasLog(report.logs, "[plot] failed")
    /\ HasLog(report.logs, "[load_audio] failed")
    /\ HasLog(report.logs, "[ASR] failed")
    /\ ResultShape

UnknownBackend == Called /\ req.asr_backend \notin KnownBackends

\* C10: with an unknown backend id no ASR backend is called, each processed
\* row logs an unknown-backend entry and is scored on the empty hypothesis,
\* and the run still returns a results report with one row per selected row.
C10_UnknownBackendNonFatal ==
    UnknownBackend =>
        /\ CallsOf("asr") = <<>>
        /\ CountLog(logs, "[ASR] Unknown backend") = Len(rows)
        /\ \A i \in 1..Len(CallsOf("cer_wer")) : CallsOf("cer_wer")[i].hyp = <<>>
        /\ (pc = "returned" /\ ~SetupError) =>
              /\ ResultShape
              /\ Len(report.detailedResults) = Cardinality(SelIdx)
        /\ pc = "raised" => SetupError

C10_Witness ==
    /\ UnknownBackend
    /\ pc = "returned"
    /\ Len(report.detailedResults) = 2
    /\ CountLog(report.logs, "[ASR] Unknown backend") = 2

\* the last human row of utt_id u, as a set of at most one position
LastHuman(u) ==
    {i \in 1..Len(meta.rows) :
        /\ meta.rows[i].condition = "human"
        /\ meta.rows[i].utt_id = u
        /\ \A j \in (i + 1)..Len(meta.rows) :
              ~(meta.rows[j].condition = "human" /\ meta.rows[j].utt_id = u)}

\* utt_id u has no reference text: no text column, no human row, or a human
\* row whose text cell is missing
NoRefText(u) ==
    \/ "text" \notin meta.columns
    \/ LastHuman(u) = {}
    \/ \E i \in LastHuman(u) : meta.rows[i].text = <<>>

\* C4: every evaluated row whose utt_id has no reference text has CER 0.0 and
\* WER 0.0, whatever the hypothesis.
C4_NoReferenceScoresZero ==
    \A i \in 1..Len(rows) :
        NoRefText(rows[i].utt_id) => (rows[i].CER = Zero /\ rows[i].WER = Zero)

FoldCase(c) == IF c = "B" THEN "b" ELSE IF c = "A" THEN "a" ELSE c

\* the words of s: its maximal runs of non-blank characters, in lower case
WordsOf(s) ==
    LET starts == Ascending({i \in 1..Len(s) : s[i] # " " /\ (i = 1 \/ s[i - 1] = " ")})
        stop(i) == CHOOSE j \in i..Len(s) :
                      /\ \A m \in i..j : s[m] # " "
                      /\ (j = Len(s) \/ s[j + 1] = " ")
    IN  [n \in 1..Len(starts) |->
            [m \in 1..(stop(starts[n]) - starts[n] + 1) |-> FoldCase(s[starts[n] + m - 1])]]

\* r and h are equal up to letter case and the blanks around and between words
SameText(r, h) == WordsOf(r) = WordsOf(h)

\* C5: a hypothesis equal to the reference up to letter case and whitespace
\* scores cer 0.0 and wer 0.0, and normalizing either argument beforehand
\* changes neither cer nor wer.
C5_NormalizationInvariant ==
    tm.done =>
        /\ SameText(tm.ref, tm.hyp) => (tm.cer = Zero /\ tm.wer = Zero)
        /\ tm.cer = cer(normalize(tm.ref), tm.hyp)
        /\ tm.cer = cer(tm.ref, normalize(tm.hyp))
        /\ tm.wer = wer(normalize(tm.ref), tm.hyp)
        /\ tm.wer = wer(tm.ref, normalize(tm.hyp))

C5_Witness ==
    /\ tm.done
    /\ tm.ref = <<"a", " ", " ", "B">>
    /\ tm.hyp = <<"a", " ", "b">>
    /\ tm.cer = Zero
    /\ tm.wer = Zero

NumCols == {"CER", "WER", "RMS", "centroid", "rolloff"}

\* the positions of the detailed rows with distance_m = key
GroupOf(key) ==
    {i \in 1..Len(report.detailedResults) : report.detailedResults[i].distance_m = key}

RECURSIVE Total(_, _)
Total(S, c) ==
    IF S = {} THEN Zero
    ELSE LET i == CHOOSE x \in S : TRUE
         IN  Add(report.detailedResults[i][c], Total(S \ {i}, c))

Times(x, c) == IF x.k = "fin" THEN Fin(x.n * c, x.d) ELSE x

\* C6: the summary of a non-empty run has one row per distinct distance_m of
\* detailedResults, in ascending order of distance_m, and each of its
\* metrics is the mean of that metric over the rows of that distance_m.
C6_SummaryIsGroupMean ==
    (pc = "returned" /\ ResultShape /\ report.detailedResults # <<>>) =>
        LET det == report.detailedResults
            summ == report.summary
        IN  /\ {summ[j].distance_m : j \in 1..Len(summ)}
                  = {det[i].distance_m : i \in 1..Len(det)}
            /\ Len(summ) = Cardinality({det[i].distance_m : i \in 1..Len(det)})
            /\ \A j \in 1..(Len(summ) - 1) :
                  Less(summ[j].distance_m, summ[j + 1].distance_m)
            /\ \A j \in 1..Len(summ) : \A c \in NumCols :
                  Times(summ[j][c], Cardinality(GroupOf(summ[j].distance_m)))
                      = Total(GroupOf(summ[j].distance_m), c)

C6_Witness ==
    /\ pc = "returned"
    /\ Len(report.summary) = 1
    /\ Len(report.detailedResults) = 2
    /\ report.detailedResults[1].RMS # report.detailedResults[2].RMS
    /\ report.summary[1].RMS # report.detailedResults[1].RMS
    /\ report.summary[1].RMS # report.detailedResults[2].RMS

\* C7: load_audio returns, for every outcome of the read and of the resample,
\* a non-empty waveform at TARGET_SR; a failed read and a failed resample
\* each leave their own log entry and one second of silence.
C7_LoadAudioTotal ==
    la.done =>
        /\ la.out.sr = TARGET_SR
        /\ la.out.y.len > 0
        /\ la.out.y.ndim = 1
        /\ ~la.rd.ok =>
              /\ la.out.y = zeros(TARGET_SR)
              /\ HasLog(la.out.logs, "[load_audio] failed")
              /\ ~HasLog(la.out.logs, "[resample] failed")
        /\ (la.rd.ok /\ la.rd.sr # TARGET_SR /\ la.rs = "fail") =>
              /\ la.out.y = zeros(TARGET_SR)
              /\ HasLog(la.out.logs, "[resample] failed")
              /\ ~HasLog(la.out.logs, "[load_audio] failed")
        /\ (la.rd.ok /\ (la.rd.sr = TARGET_SR \/ la.rs = "ok")) => la.out.logs = <<>>

C7_Witness ==
    /\ la.done
    /\ la.rd.ok
    /\ la.rd.frames = 0
    /\ la.rd.channels = 2
    /\ la.rd.sr = 44100
    /\ la.rs = "ok"
    /\ la.out.y.len > 0

\* C8: every row of detailedResults has finite distance_m, CER, WER, RMS,
\* centroid and rolloff; distance_m is the value of the metadata cell, and
\* 0.0 when the column is absent, the cell is missing or it is not a number.
C8_RowsFinite ==
    (pc = "returned" /\ ResultShape) =>
        \A i \in 1..Len(report.detailedResults) :
            LET r == report.detailedResults[i]
                cell == meta.rows[r.idx + 1].distance_m
            IN  /\ IsFinite(r.distance_m)
                /\ \A c \in NumCols : IsFinite(r[c])
                /\ ("distance_m" \notin meta.columns \/ cell = "" \/ cell = "far")
                      => r.distance_m = Zero
                /\ ("distance_m" \in meta.columns /\ cell = "1") => r.distance_m = Fin(1, 1)

\* how the apply_eq call of the i-th processed row ended; "skipped" when the
\* gate made no call (the gate is the same for every row of a run)
EqCallOf(i) ==
    IF i <= Len(CallsOf("apply_eq")) THEN CallsOf("apply_eq")[i].out ELSE "skipped"

EqRaised(i) == EqCallOf(i) = "fail"

\* doEq is false, or eqMode is "none", empty or no known profile, or the
\* filter raised on row i
EqIdentityCase(i) ==
    \/ ~req.do_eq
    \/ req.eq_mode \in {"", "none"}
    \/ req.eq_mode \notin KnownProfiles
    \/ EqRaised(i)

\* C11: in every processed row the waveform given to the ASR backend and to
\* the feature extractor is the one load_audio returned whenever doEq is
\* false, eqMode is "none", empty or not a known profile, or the EQ filter
\* raised, each such failure being logged once with the row's utt_id;
\* otherwise both are given apply_eq of the loaded waveform; and apply_eq
\* keeps the length of the signal for every profile name.
C11_EqGateIdentity ==
    /\ \A i \in 1..Len(rows) :
          LET loaded == CallsOf("load_audio")[i].y
              who == CallsOf("load_audio")[i].who
              asr_y == CallsOf("asr")[i].y
              feat_y == CallsOf("spectral_features")[i].y
          IN  /\ EqIdentityCase(i) => (asr_y = loaded /\ feat_y = loaded)
              /\ ~EqIdentityCase(i) =>
                    /\ asr_y = apply_eq(loaded, req.eq_mode)
                    /\ feat_y = apply_eq(loaded, req.eq_mode)
              /\ EqRaised(i) =>
                    \E j \in 1..Len(logs) : logs[j] = Log("[EQ] failed", who)
              /\ asr_y.len = loaded.len
              /\ \A m \in EqModes : apply_eq(loaded, m).len = loaded.len
    /\ CountLog(logs, "[EQ] failed")
          = Cardinality({i \in 1..Len(rows) : EqRaised(i)})

C11_Witness ==
    /\ pc = "returned"
    /\ req.do_eq
    /\ req.eq_mode = "rock"
    /\ Len(rows) = 2
    /\ EqCallOf(1) = "fail"
    /\ EqCallOf(2) = "ok"
    /\ CallsOf("asr")[1].y = CallsOf("load_audio")[1].y
    /\ CallsOf("asr")[2].y # CallsOf("load_audio")[2].y
    /\ CallsOf("load_audio")[2].y.len = 2 * MaxFrames
    /\ CallsOf("spectral_features")[2].y.len = 2 * MaxFrames

\* C12: for every reference and hypothesis, the empty reference with a
\* non-empty hypothesis included, cer and wer of analyze.py return the values
\* cer and wer of evaluate.py return (both scripts loaded, so editdistance
\* is installed).
C12_AnalyzeMatchesEvaluate ==
    (am.done /\ am.ed) =>
        /\ am.cer = cer(am.ref, am.hyp)
        /\ am.wer = wer(am.ref, am.hyp)

====
